---- MODULE Spec2Model ----
(***************************************************************************)
(* State-machine model of mcp-lnc-server: the LNC connection service       *)
(* (tools.ConnectionService), the service manager (services.Manager) and   *)
(* the read-only query services, as far as the properties below need them. *)
(*                                                                         *)
(* Durations are in milliseconds.  A transport handle (a grpc.ClientConn)  *)
(* is a positive integer; Nil (0) is the nil pointer / nil interface.      *)
(***************************************************************************)
EXTENDS Integers, Sequences, FiniteSets, TLC

\* ------------------------------------------------------------------ bounds
\* Largest number of tokens of a pairing phrase the inputs range over.
MaxTokens == 11
\* Number of transport handles the relay connector can hand out in one run.
MaxHandles == 2

\* ------------------------------------------------- constants of the program
WordCount == 10
GraceWait == 3000
maxWaitTime == 5000
PollInterval == 200
RequestTimeout == 45000
DefaultConnectTimeout == 30000
DefaultMailbox == "mailbox.terminal.lightning.today:443"

Nil == 0
Handles == 1..MaxHandles

\* ------------------------------------------------------------ Go strings
\* A pairing phrase is a sequence of characters: "w" is a letter of a word,
\* "sp" a space, "tab" any other white space character.
IsSpace(ch) == ch \in {"sp", "tab"}

RECURSIVE TrimLeft(_)
TrimLeft(s) ==
    IF s # <<>> /\ IsSpace(Head(s)) THEN TrimLeft(Tail(s)) ELSE s

RECURSIVE TrimRight(_)
TrimRight(s) ==
    IF s # <<>> /\ IsSpace(s[Len(s)])
    THEN TrimRight(SubSeq(s, 1, Len(s) - 1))
    ELSE s

\* strings.TrimSpace
TrimSpace(s) == TrimRight(TrimLeft(s))

\* strings.Split(s, " "): cuts at every single space, keeps empty pieces.
RECURSIVE Split(_)
Split(s) ==
    IF \E i \in 1..Len(s) : s[i] = "sp"
    THEN LET i == CHOOSE j \in 1..Len(s) :
                      s[j] = "sp" /\ \A k \in 1..(j - 1) : s[k] # "sp"
         IN  <<SubSeq(s, 1, i - 1)>> \o Split(SubSeq(s, i + 1, Len(s)))
    ELSE <<s>>

\* strings.Fields: cuts around runs of white space, no empty pieces.
RECURSIVE Fields(_)
Fields(s) ==
    LET t == TrimLeft(s) IN
    IF t = <<>> THEN <<>>
    ELSE IF \E i \in 1..Len(t) : IsSpace(t[i])
         THEN LET i == CHOOSE j \in 1..Len(t) :
                           IsSpace(t[j]) /\ \A k \in 1..(j - 1) : ~IsSpace(t[k])
              IN  <<SubSeq(t, 1, i - 1)>> \o Fields(SubSeq(t, i + 1, Len(t)))
         ELSE <<t>>

\* The word count HandleConnect validates.
words(pairingPhrase) == Split(TrimSpace(pairingPhrase))

\* ---------------------------------------------------------------- inputs
Gaps == {<<"sp">>, <<"sp", "sp">>, <<"tab">>}
Pads == {<<>>, <<"sp">>}

\* n one-letter words; a single space between them, except after word k
\* where the separator is gap.
RECURSIVE Joined(_, _, _)
Joined(n, k, gap) ==
    IF n = 0 THEN <<>>
    ELSE IF n = 1 THEN <<"w">>
    ELSE Joined(n - 1, k, gap)
         \o (IF k = n - 1 THEN gap ELSE <<"sp">>) \o <<"w">>

PairingPhrases ==
    {lead \o Joined(n, k, gap) \o trail :
        n \in 0..MaxTokens, k \in 0..MaxTokens, gap \in Gaps,
        lead \in Pads, trail \in Pads}

\* What one pairingPhrase argument amounts to: the number of white-space
\* separated tokens it has, and the number of words HandleConnect counts.
\* isString = FALSE is an absent or non-string argument.
PhraseArgs ==
    {[isString |-> TRUE, tokens |-> Len(Fields(p)), words |-> Len(words(p)),
      irregular |-> (p # Joined(Len(Fields(p)), 0, <<"sp">>))] :
        p \in PairingPhrases}
    \cup {[isString |-> FALSE, tokens |-> 0, words |-> 0, irregular |-> FALSE]}

PasswordArgs == {"absent", "", "secret"}

\* strings.HasPrefix
HasPrefix(s, prefix) ==
    Len(s) >= Len(prefix) /\ SubSeq(s, 1, Len(prefix)) = prefix

\* strconv.ParseBool, with the error dropped as the callers do.
ParseBool(str) == str \in {"1", "t", "T", "TRUE", "true", "True"}

MailboxArgs == {"", "localhost:11110", "127.0.0.1:11110", "mailbox.example.com:443"}
BoolArgs == {"absent", "true", "false"}
EnvBools == {"", "true", "0"}

\* getMailboxServer and the defaults of HandleConnect.
getMailboxServer(mailboxArg, envMailbox) ==
    IF mailboxArg # "" THEN mailboxArg
    ELSE IF envMailbox # "" THEN envMailbox
    ELSE DefaultMailbox

\* devMode / insecure: the argument when it is a bool, else the environment.
BoolParam(arg, env) ==
    IF arg # "absent" THEN arg = "true"
    ELSE IF env # "" THEN ParseBool(env)
    ELSE FALSE

\* WantsInsecureTLS without the test for a relay address on 127.0.0.1.
WantsInsecureTLS_NoLoopbackIP(mailboxServer, devMode, insecure) ==
    \/ devMode
    \/ insecure
    \/ HasPrefix(mailboxServer, "localhost")

\* The condition under which connectToLNC disables certificate validation.
WantsInsecureTLS(mailboxServer, devMode, insecure) ==
    \/ devMode
    \/ insecure
    \/ HasPrefix(mailboxServer, "localhost")
    \/ HasPrefix(mailboxServer, "127.0.0.1")

\* The connection parameters HandleConnect resolves from the arguments and
\* the environment, reduced to what the negotiation depends on.
\* tlsCase names what the attempt was given: devMode, else insecure, else the
\* kind of relay address.
TLSCase(mailboxServer, devMode, insecure) ==
    IF devMode THEN "devMode"
    ELSE IF insecure THEN "insecure"
    ELSE IF HasPrefix(mailboxServer, "localhost") THEN "localhost"
    ELSE IF HasPrefix(mailboxServer, "127.0.0.1") THEN "127.0.0.1"
    ELSE "remote"

\* A value of LNC_CONNECT_TIMEOUT: a string of characters, a digit 0..9 or
\* another character (NonDigit); the empty string is the unset variable.
NonDigit == -1
EnvTimeouts == {<<>>, <<5>>, <<6, 0>>, <<NonDigit>>, <<3, NonDigit>>}

\* strconv.Atoi on such a string: whether it parses, and the value.
RECURSIVE AtoiDigits(_, _)
AtoiDigits(str, acc) ==
    IF str = <<>> THEN acc
    ELSE AtoiDigits(Tail(str), 10 * acc + Head(str))

Atoi(str) ==
    IF str # <<>> /\ \A k \in 1..Len(str) : str[k] \in 0..9
    THEN [ok |-> TRUE, val |-> AtoiDigits(str, 0)]
    ELSE [ok |-> FALSE, val |-> 0]

\* The timeout HandleConnect resolves (and logs).
ConnectTimeout(envTimeout) ==
    IF envTimeout # <<>> /\ Atoi(envTimeout).ok
    THEN Atoi(envTimeout).val * 1000
    ELSE DefaultConnectTimeout

ConnectParams ==
    {[tlsCase |->
         TLSCase(getMailboxServer(m, em), BoolParam(d, ed), BoolParam(i, ei)),
      insecureTLS |->
         WantsInsecureTLS(getMailboxServer(m, em), BoolParam(d, ed),
                          BoolParam(i, ei)),
      envTimeout |-> et,
      timeout |-> ConnectTimeout(et)] :
        m \in MailboxArgs, em \in {"", "localhost:11110"},
        d \in BoolArgs, ed \in EnvBools, i \in BoolArgs, ei \in EnvBools,
        et \in EnvTimeouts}

\* ----------------------------------------------------------------- tools
Services == {"invoice", "channel", "payment", "onchain", "peer", "node"}

\* RegisteredTools with a payment tool registered as well.
RegisteredTools_WithSendPayment ==
    << "lnc_connect", "lnc_disconnect",
       "lnc_decode_invoice", "lnc_list_invoices", "lnc_lookup_invoice",
       "lnc_list_channels", "lnc_pending_channels",
       "lnc_list_payments", "lnc_track_payment", "lnc_send_payment",
       "lnc_list_unspent", "lnc_get_transactions", "lnc_estimate_fee",
       "lnc_list_peers", "lnc_describe_graph", "lnc_get_node_info",
       "lnc_get_balance", "lnc_get_info" >>

\* Manager.RegisterTools: the tools in registration order.
RegisteredTools ==
    << "lnc_connect", "lnc_disconnect",
       "lnc_decode_invoice", "lnc_list_invoices", "lnc_lookup_invoice",
       "lnc_list_channels", "lnc_pending_channels",
       "lnc_list_payments", "lnc_track_payment",
       "lnc_list_unspent", "lnc_get_transactions", "lnc_estimate_fee",
       "lnc_list_peers", "lnc_describe_graph", "lnc_get_node_info",
       "lnc_get_balance", "lnc_get_info" >>

Range(f) == {f[i] : i \in DOMAIN f}

NotConnected == "Not connected to Lightning node. Use lnc_connect first."

\* Confirmation targets HandleEstimateFee iterates over.
FeeTargets == <<1, 3, 6, 10, 20, 50, 100>>

\* ------------------------------------------------------------------ state
Calls == {"c1", "c2"}

VARIABLES
    Connection,          \* ConnectionService.Connection
    lncConnection,       \* Manager.lncConnection
    LightningClient,     \* per service, the handle its LightningClient wraps
    InsecureSkipVerify,  \* http.DefaultTransport.TLSClientConfig.InsecureSkipVerify
    tools,               \* names added to the MCP server, in order
    nextHandle,          \* next handle the relay connector hands out
    closes,              \* per handle, who called Close on it, in order
    shutdown,            \* Manager.Shutdown has run
    call,                \* per lnc_connect call, its position and locals
    obs,                 \* per lnc_connect call, what it did (observation),
                         \* kept until the next tool call is served
    hist,                \* observation of the handles: stored, notified, ...
    last,                \* observation of the last disconnect / query call
    daemon               \* Daemon: where Start and shutdownHandler are

vars == <<Connection, lncConnection, LightningClient, InsecureSkipVerify,
          tools, nextHandle, closes, shutdown, call, obs, hist, last, daemon>>

connVars == <<Connection, lncConnection, LightningClient>>
lifeVars == <<shutdown, daemon>>

IdleCall ==
    [pc |-> "idle", deadline |-> 0, ctxErr |-> "", lndConnect |-> "unset",
     remotePub |-> FALSE, authReceived |-> FALSE, elapsed |-> 0, conn |-> Nil]

\* The arguments of an lnc_connect call as observed: the token count of the
\* pairing phrase, the password, and what was given about TLS.  They are
\* observed from the start of the call until it returns or calls the relay
\* session constructor.
NoArgs ==
    [given |-> FALSE, tokens |-> 0, irregular |-> FALSE, password |-> "absent",
     tlsCase |-> "remote", envTimeout |-> <<>>, timeout |-> 0]

NoObs ==
    [args |-> NoArgs, insecureTLS |-> FALSE, result |-> "",
     ctor |-> 0, noConnector |-> FALSE, connector |-> 0, conn |-> Nil,
     rpcs |-> <<>>, donePhase |-> "", steps |-> <<>>, ctxAborted |-> FALSE]

NoLast ==
    [tool |-> "", result |-> "", rpcs |-> <<>>, closed |-> Nil,
     client |-> Nil, clientClosed |-> FALSE, hadConnection |-> FALSE,
     targets |-> <<>>, estimates |-> {}, badArgs |-> FALSE,
     targetConf |-> 0, okTargets |-> {}]

\* State after main has built the daemon: nothing registered yet.
Init ==
    /\ Connection = Nil
    /\ lncConnection = Nil
    /\ LightningClient = [s \in Services |-> Nil]
    /\ InsecureSkipVerify = FALSE
    /\ tools = <<>>
    /\ nextHandle = 1
    /\ closes = [h \in Handles |-> <<>>]
    /\ shutdown = FALSE
    /\ call = [c \in Calls |-> IdleCall]
    /\ obs = [c \in Calls |-> NoObs]
    /\ hist = [stored |-> {}, notified |-> {}, failedLiveness |-> {},
               mcpServer |-> "", registerErr |-> ""]
    /\ last = NoLast
    /\ daemon = [start |-> "select", handler |-> "quit", expired |-> FALSE,
                 quit |-> 0, stop |-> "idle", serve |-> "running",
                 errChan |-> "", ret |-> ""]

IsOpen(h) == h \in 1..(nextHandle - 1) /\ closes[h] = <<>>
OpenHandles == {h \in Handles : IsOpen(h)}

\* conn.Close()
Close(h, who) == [closes EXCEPT ![h] = Append(@, who)]

Registered(name) == name \in Range(tools)

\* The host serves one tool call at a time, in call slot Worker.
HostFree == \A c \in Calls : call[c].pc = "idle"
Worker == "c1"
\* The call slots in which the host can start serving a tool call.
FreeSlots == IF HostFree THEN {Worker} ELSE {}

\* close(d.quit) was executed on the closed channel: the process panicked.
Panicked == daemon.quit > 1

\* The host dispatches a tool call: the process serves (its serve loop runs),
\* the tool is registered, and no other tool call is being served.
Dispatch(name) ==
    /\ HostFree
    /\ ~shutdown
    /\ daemon.serve = "running"
    /\ ~Panicked
    /\ Registered(name)

\* ------------------------------------------------ server construction
\* NewServer: Manager.InitializeServices, then Manager.RegisterTools.
InitializeServices ==
    LightningClient' = [s \in Services |-> Nil]

\* The MCP server handed to RegisterTools: a server, or the nil interface.
MCPServers == {"server", "nil"}

\* RegisterTools without the nil check of mcpServer.
RegisterTools_NoNilCheck(mcpServer) ==
    /\ tools' = tools \o RegisteredTools
    /\ hist' = [hist EXCEPT !.mcpServer = mcpServer]

\* One mcpServer.AddTool per tool, unless mcpServer is nil: then the error.
RegisterTools(mcpServer) ==
    IF mcpServer = "nil"
    THEN /\ UNCHANGED tools
         /\ hist' = [hist EXCEPT !.mcpServer = mcpServer,
                                 !.registerErr = "MCP server cannot be nil"]
    ELSE /\ tools' = tools \o RegisteredTools
         /\ hist' = [hist EXCEPT !.mcpServer = mcpServer]

\* NewServer; when RegisterTools fails no server is built and main exits.
NewServer(mcpServer) ==
    /\ hist.mcpServer = ""
    /\ ~shutdown
    /\ InitializeServices
    /\ RegisterTools(mcpServer)
    /\ UNCHANGED <<Connection, lncConnection, InsecureSkipVerify, nextHandle,
                   closes, lifeVars, call, obs, last>>

\* ------------------------------------------------------- lnc_connect
\* The steps of a negotiation that were completed, as observed.
Step(c, step) == [obs[c] EXCEPT !.steps = Append(@, step)]

\* The tool call returns: its locals are gone, its result is observed.
Return(c, o, result) ==
    /\ call' = [call EXCEPT ![c] = IdleCall]
    /\ obs' = [obs EXCEPT ![c] = [o EXCEPT !.result = result]]

Goto(c, pc) == call' = [call EXCEPT ![c].pc = pc]

\* The phase of the negotiation a position belongs to.
PhaseOf(pc) ==
    CASE pc \in {"params", "mailbox"} -> "setup"
      [] pc = "grace" -> "grace"
      [] pc \in {"poll", "sleep"} -> "poll"
      [] pc \in {"connect", "connecting", "getinfo"} -> "connector"
      [] pc = "liveness" -> "liveness"
      [] OTHER -> "publish"

\* HandleConnect up to the resolution of the connection parameters: the
\* validation of the arguments.
HandleConnect(c, phrase, password) ==
    /\ Dispatch("lnc_connect")
    /\ call[c].pc = "idle"
    /\ last' = NoLast
    /\ LET o == [NoObs EXCEPT !.args = [NoArgs EXCEPT
                                           !.given = TRUE,
                                           !.tokens = phrase.tokens,
                                           !.irregular = phrase.irregular,
                                           !.password = password]]
       IN  IF ~phrase.isString
           THEN Return(c, o, "pairingPhrase is required")
           ELSE IF password = "absent"
           THEN Return(c, o, "password is required")
           ELSE IF phrase.words # WordCount
           THEN Return(c, o, "pairingPhrase must contain exactly 10 words")
           ELSE /\ call' = [call EXCEPT ![c] =
                                [IdleCall EXCEPT !.pc = "params",
                                                 !.deadline = RequestTimeout]]
                /\ obs' = [obs EXCEPT ![c] = o]
    /\ UNCHANGED <<connVars, InsecureSkipVerify, tools, nextHandle, closes,
                   lifeVars, hist>>

\* HandleConnect resolves the connection parameters and calls connectToLNC,
\* which up to the call of mailbox.NewClientWebsocketConn generates the
\* session key and configures TLS on http.DefaultTransport.
connectToLNC(c, params, keyOK) ==
    /\ call[c].pc = "params"
    /\ LET o == [obs[c] EXCEPT !.args.tlsCase = params.tlsCase,
                               !.args.envTimeout = params.envTimeout,
                               !.args.timeout = params.timeout,
                               !.insecureTLS = params.insecureTLS]
       IN  IF ~keyOK
           THEN /\ Return(c, o, "failed to generate private key")
                /\ UNCHANGED InsecureSkipVerify
           ELSE /\ InsecureSkipVerify' =
                       (IF params.insecureTLS THEN TRUE ELSE InsecureSkipVerify)
                /\ Goto(c, "mailbox")
                /\ obs' = [obs EXCEPT ![c] = o]
    /\ UNCHANGED <<connVars, tools, nextHandle, closes, lifeVars, hist, last>>

\* NewClientWebsocketConn after which lndConnect is called at once.
NewClientWebsocketConn_SkipsWaits(c, outcome) ==
    /\ call[c].pc = "mailbox"
    /\ LET o == [obs[c] EXCEPT !.ctor = @ + 1, !.args = NoArgs]
       IN  IF outcome = "error"
           THEN Return(c, o, "failed to create mailbox connection")
           ELSE /\ call' = [call EXCEPT ![c].pc = "connect",
                                        ![c].lndConnect = outcome]
                /\ obs' = [obs EXCEPT ![c] =
                               [o EXCEPT !.noConnector =
                                             (outcome = "noConnector"),
                                         !.steps = Append(@, "session")]]
    /\ UNCHANGED <<connVars, InsecureSkipVerify, tools, nextHandle, closes,
                   lifeVars, hist, last>>

\* mailbox.NewClientWebsocketConn returns: an error, or a status checker
\* with or without a connector function (lndConnect).
NewClientWebsocketConn(c, outcome) ==
    /\ call[c].pc = "mailbox"
    /\ LET o == [obs[c] EXCEPT !.ctor = @ + 1, !.args = NoArgs]
       IN  IF outcome = "error"
           THEN Return(c, o, "failed to create mailbox connection")
           ELSE /\ call' = [call EXCEPT ![c].pc = "grace",
                                        ![c].lndConnect = outcome]
                /\ obs' = [obs EXCEPT ![c] =
                               [o EXCEPT !.noConnector =
                                             (outcome = "noConnector"),
                                         !.steps = Append(@, "session")]]
    /\ UNCHANGED <<connVars, InsecureSkipVerify, tools, nextHandle, closes,
                   lifeVars, hist, last>>

\* The relay's callbacks, run by the relay while the negotiation waits.
\* (They are read by the poll loop only, so they are modelled up to its end.)
OnRemoteKey(c) ==
    /\ call[c].pc \in {"grace", "poll", "sleep"}
    /\ ~call[c].remotePub
    /\ call' = [call EXCEPT ![c].remotePub = TRUE]
    /\ UNCHANGED <<connVars, InsecureSkipVerify, tools, nextHandle, closes,
                   lifeVars, obs, hist, last>>

OnAuthData(c) ==
    /\ call[c].pc \in {"grace", "poll", "sleep"}
    /\ ~call[c].authReceived
    /\ call' = [call EXCEPT ![c].authReceived = TRUE]
    /\ UNCHANGED <<connVars, InsecureSkipVerify, tools, nextHandle, closes,
                   lifeVars, obs, hist, last>>

\* The governing context ends: the caller cancels, or the deadline passes.
CtxDone(c, err) ==
    /\ call[c].pc # "idle"
    /\ call[c].ctxErr = ""
    /\ call' = [call EXCEPT ![c].ctxErr = err]
    /\ obs' = [obs EXCEPT ![c].donePhase = PhaseOf(call[c].pc)]
    /\ UNCHANGED <<connVars, InsecureSkipVerify, tools, nextHandle, closes,
                   lifeVars, hist, last>>

CtxCancel(c) == CtxDone(c, "context canceled")

CtxDeadline(c) == CtxDone(c, "context deadline exceeded")

\* select { case <-time.After(3s) ; case <-reqCtx.Done() }: Done first.
GraceWaitCancelled(c) ==
    /\ call[c].pc = "grace"
    /\ call[c].ctxErr # ""
    /\ Return(c, obs[c], "connection cancelled")
    /\ UNCHANGED <<connVars, InsecureSkipVerify, tools, nextHandle, closes,
                   lifeVars, hist, last>>

\* GraceWaitElapsed without the check that lndConnect is there.
GraceWaitElapsed_NoNilCheck(c) ==
    /\ call[c].pc = "grace"
    /\ call[c].ctxErr = ""
    /\ call' = [call EXCEPT ![c].pc = "poll", ![c].elapsed = 0]
    /\ obs' = [obs EXCEPT ![c] = Step(c, "grace")]
    /\ UNCHANGED <<connVars, InsecureSkipVerify, tools, nextHandle,
                   closes, lifeVars, hist, last>>

\* The timer fires first; then the check that lndConnect is there.
GraceWaitElapsed(c) ==
    /\ call[c].pc = "grace"
    /\ call[c].ctxErr = ""
    /\ IF call[c].lndConnect = "noConnector"
       THEN Return(c, obs[c],
                   "lndConnect function not available after connection setup")
       ELSE /\ call' = [call EXCEPT ![c].pc = "poll", ![c].elapsed = 0]
            /\ obs' = [obs EXCEPT ![c] = Step(c, "grace")]
    /\ UNCHANGED <<connVars, InsecureSkipVerify, tools, nextHandle, closes,
                   lifeVars, hist, last>>

\* PollLoop that gives up at the ceiling when a callback is missing.
PollLoop_RequiresCallbacks(c) ==
    /\ call[c].pc = "poll"
    /\ IF call[c].authReceived /\ call[c].remotePub /\ call[c].ctxErr = ""
       THEN Goto(c, "connect") /\ obs' = [obs EXCEPT ![c] = Step(c, "poll")]
       ELSE IF call[c].elapsed >= maxWaitTime
       THEN Return(c, obs[c], "timed out waiting for callbacks")
       ELSE IF call[c].ctxErr # ""
       THEN Return(c, obs[c], "connection cancelled")
       ELSE Goto(c, "sleep") /\ UNCHANGED obs
    /\ UNCHANGED <<connVars, InsecureSkipVerify, tools, nextHandle, closes,
                   lifeVars, hist, last>>

\* One pass of  for time.Since(waitStart) < maxWaitTime { ... }  up to Sleep.
PollLoop(c) ==
    /\ call[c].pc = "poll"
    /\ IF call[c].elapsed >= maxWaitTime
       THEN Goto(c, "connect") /\ obs' = [obs EXCEPT ![c] = Step(c, "poll")]
       ELSE IF call[c].ctxErr # ""
       THEN Return(c, obs[c], "connection cancelled")
       ELSE IF call[c].authReceived /\ call[c].remotePub
       THEN Goto(c, "connect") /\ obs' = [obs EXCEPT ![c] = Step(c, "poll")]
       ELSE Goto(c, "sleep") /\ UNCHANGED obs
    /\ UNCHANGED <<connVars, InsecureSkipVerify, tools, nextHandle, closes,
                   lifeVars, hist, last>>

\* PollSleep during which no time passes.
PollSleep_NoTime(c) ==
    /\ call[c].pc = "sleep"
    /\ Goto(c, "poll")
    /\ UNCHANGED <<connVars, InsecureSkipVerify, tools, nextHandle, closes,
                   lifeVars, obs, hist, last>>

\* time.Sleep(200 * time.Millisecond)
PollSleep(c) ==
    /\ call[c].pc = "sleep"
    /\ call' = [call EXCEPT ![c].pc = "poll",
                            ![c].elapsed = @ + PollInterval]
    /\ UNCHANGED <<connVars, InsecureSkipVerify, tools, nextHandle, closes,
                   lifeVars, obs, hist, last>>

\* statusChecker(); conn, err := lndConnect()  -- the call is made.
lndConnectCall(c) ==
    /\ call[c].pc = "connect"
    /\ Goto(c, "connecting")
    /\ obs' = [obs EXCEPT ![c] = [Step(c, "connector") EXCEPT
                                      !.connector = @ + 1]]
    /\ UNCHANGED <<connVars, InsecureSkipVerify, tools, nextHandle, closes,
                   lifeVars, hist, last>>

\* lndConnectReturn that calls lndConnect again when it returned an error.
lndConnectReturn_Retry(c, ok) ==
    /\ call[c].pc = "connecting"
    /\ IF ok
       THEN /\ nextHandle <= MaxHandles
            /\ call' = [call EXCEPT ![c].pc = "getinfo",
                                    ![c].conn = nextHandle]
            /\ nextHandle' = nextHandle + 1
            /\ obs' = [obs EXCEPT ![c] = [Step(c, "handle") EXCEPT
                                              !.conn = nextHandle]]
       ELSE /\ Goto(c, "connect")
            /\ UNCHANGED <<obs, nextHandle>>
    /\ UNCHANGED <<connVars, InsecureSkipVerify, tools, closes, lifeVars,
                   hist, last>>

\* lndConnect returns a new handle, or an error.
lndConnectReturn(c, ok) ==
    /\ call[c].pc = "connecting"
    /\ IF ok
       THEN /\ nextHandle <= MaxHandles
            /\ call' = [call EXCEPT ![c].pc = "getinfo",
                                    ![c].conn = nextHandle]
            /\ nextHandle' = nextHandle + 1
            /\ obs' = [obs EXCEPT ![c] = [Step(c, "handle") EXCEPT
                                              !.conn = nextHandle]]
       ELSE /\ Return(c, obs[c], "failed to establish LND connection")
            /\ UNCHANGED nextHandle
    /\ UNCHANGED <<connVars, InsecureSkipVerify, tools, closes, lifeVars,
                   hist, last>>

\* lightningClient.GetInfo(reqCtx, ...) -- the liveness RPC is issued.
GetInfoCall(c) ==
    /\ call[c].pc = "getinfo"
    /\ Goto(c, "liveness")
    /\ obs' = [obs EXCEPT ![c] = [Step(c, "liveness") EXCEPT
                                      !.rpcs = Append(@, "GetInfo")]]
    /\ UNCHANGED <<connVars, InsecureSkipVerify, tools, nextHandle, closes,
                   lifeVars, hist, last>>

\* reqCtx was done before GetInfo was issued: gRPC fails such a call with
\* the context's error.  (A context that ends while the RPC is in flight
\* may or may not abort it.)
DoneBeforeIssue(c) == obs[c].donePhase \notin {"", "liveness"}

\* LivenessFailed without the conn.Close().
LivenessFailed_NoClose(c) ==
    /\ UNCHANGED closes
    /\ hist' = [hist EXCEPT !.failedLiveness = @ \cup {call[c].conn}]
    /\ Return(c, [obs[c] EXCEPT !.ctxAborted = DoneBeforeIssue(c)],
              "connected but failed to get node info")

\* What connectToLNC does when GetInfo failed: conn.Close(), the error.
LivenessFailed(c) ==
    /\ closes' = Close(call[c].conn, "connectToLNC")
    /\ hist' = [hist EXCEPT !.failedLiveness = @ \cup {call[c].conn}]
    /\ Return(c, [obs[c] EXCEPT !.ctxAborted = DoneBeforeIssue(c)],
              "connected but failed to get node info")

\* GetInfoReturn of a GetInfo that is not given the context.
GetInfoReturn_IgnoresContext(c, ok) ==
    /\ call[c].pc = "liveness"
    /\ IF ok
       THEN /\ Goto(c, "store")
            /\ obs' = [obs EXCEPT ![c] = Step(c, "alive")]
            /\ UNCHANGED <<closes, hist>>
       ELSE LivenessFailed(c)
    /\ UNCHANGED <<connVars, InsecureSkipVerify, tools, nextHandle,
                   lifeVars, last>>

\* GetInfo(reqCtx, ...) returns; on a context that was done when the RPC was
\* issued it can only fail.
GetInfoReturn(c, ok) ==
    /\ call[c].pc = "liveness"
    /\ IF ok
       THEN /\ ~DoneBeforeIssue(c)
            /\ Goto(c, "store")
            /\ obs' = [obs EXCEPT ![c] = Step(c, "alive")]
            /\ UNCHANGED <<closes, hist>>
       ELSE LivenessFailed(c)
    /\ UNCHANGED <<connVars, InsecureSkipVerify, tools, nextHandle,
                   lifeVars, last>>

\* HandleConnect after connectToLNC succeeded:  s.Connection = conn
StoreConnection(c) ==
    /\ call[c].pc = "store"
    /\ Connection' = call[c].conn
    /\ hist' = [hist EXCEPT !.stored = @ \cup {call[c].conn}]
    /\ Goto(c, "notify")
    /\ obs' = [obs EXCEPT ![c] = Step(c, "handed")]
    /\ UNCHANGED <<lncConnection, LightningClient, InsecureSkipVerify, tools,
                   nextHandle, closes, lifeVars, last>>

\* onLNCConnectionEstablished that leaves out the node service.
onLNCConnectionEstablished_SkipsNode(conn) ==
    /\ lncConnection' = conn
    /\ LightningClient' =
           [s \in Services |-> IF s = "node" THEN LightningClient[s] ELSE conn]

\* Manager.onLNCConnectionEstablished
onLNCConnectionEstablished(conn) ==
    /\ lncConnection' = conn
    /\ LightningClient' = [s \in Services |-> conn]

\* s.ConnectionCallback(conn), then the success payload.
ConnectionCallback(c) ==
    /\ call[c].pc = "notify"
    /\ onLNCConnectionEstablished(call[c].conn)
    /\ hist' = [hist EXCEPT !.notified = @ \cup {call[c].conn}]
    /\ Return(c, obs[c], "connected")
    /\ UNCHANGED <<Connection, InsecureSkipVerify, tools, nextHandle, closes,
                   lifeVars, last>>

\* --------------------------------------------------- lnc_disconnect
\* HandleDisconnect without  s.Connection = nil.
HandleDisconnect_KeepsConnection ==
    /\ Dispatch("lnc_disconnect")
    /\ IF Connection # Nil
       THEN closes' = Close(Connection, "HandleDisconnect")
       ELSE UNCHANGED closes
    /\ UNCHANGED Connection
    /\ last' = [NoLast EXCEPT !.tool = "lnc_disconnect",
                              !.result = "disconnected",
                              !.closed = Connection,
                              !.hadConnection = (Connection # Nil)]
    /\ obs' = [c \in Calls |-> IF call[c].pc = "idle" THEN NoObs ELSE obs[c]]
    /\ UNCHANGED <<lncConnection, LightningClient, InsecureSkipVerify, tools,
                   nextHandle, lifeVars, call, hist>>

HandleDisconnect ==
    /\ Dispatch("lnc_disconnect")
    /\ IF Connection # Nil
       THEN /\ closes' = Close(Connection, "HandleDisconnect")
            /\ Connection' = Nil
       ELSE UNCHANGED <<closes, Connection>>
    /\ last' = [NoLast EXCEPT !.tool = "lnc_disconnect",
                              !.result = "disconnected",
                              !.closed = Connection,
                              !.hadConnection = (Connection # Nil)]
    /\ obs' = [c \in Calls |-> IF call[c].pc = "idle" THEN NoObs ELSE obs[c]]
    /\ UNCHANGED <<lncConnection, LightningClient, InsecureSkipVerify, tools,
                   nextHandle, lifeVars, call, hist>>

\* ------------------------------------------------- Manager.Shutdown
Shutdown ==
    /\ tools # <<>>
    /\ ~shutdown
    /\ shutdown' = TRUE
    /\ IF lncConnection # Nil
       THEN closes' = Close(lncConnection, "Shutdown")
       ELSE UNCHANGED closes
    /\ UNCHANGED <<connVars, InsecureSkipVerify, tools, nextHandle, call,
                   obs, hist, last, daemon>>

\* ----------------------------------------------------------- Daemon
\* Daemon.Start waits in its select (start = "select"), then for
\* shutdownComplete (start = "wait"), then returns.  shutdownHandler waits
\* for quit (handler = "quit"), then runs Server.Stop, in which
\* Manager.Shutdown calls Close on the handle (handler = "close"; the call
\* may take any time or never return), then closes shutdownComplete
\* (handler = "done").  expired: the deadline of shutdownCtx has passed.
\* quit: how many times close(d.quit) was executed.  stop: where a call of
\* Daemon.Stop is.  serve: whether the goroutine's d.server.Start() runs, or
\* what it returned.  errChan: the error buffered in serverErrChan ("" when
\* empty).  ret: what Start returned.

\* Daemon.Start: a signal is received on sigChan; close(d.quit).
ReceiveSignal ==
    /\ tools # <<>>
    /\ ~Panicked
    /\ daemon.start = "select"
    /\ daemon' = [daemon EXCEPT !.quit = @ + 1,
                                !.start = IF daemon.quit = 0 THEN "wait" ELSE @]
    /\ UNCHANGED <<connVars, InsecureSkipVerify, tools, nextHandle, closes,
                   shutdown, call, obs, hist, last>>

\* shutdownHandler after <-d.quit: shutdownCtx with the shutdown timeout,
\* d.server.Stop(shutdownCtx), which calls Manager.Shutdown(); with no
\* handle to close it goes on to close(d.shutdownComplete).
shutdownHandler ==
    /\ daemon.quit > 0
    /\ ~Panicked
    /\ daemon.handler = "quit"
    /\ shutdown' = TRUE
    /\ IF lncConnection # Nil
       THEN /\ closes' = Close(lncConnection, "Shutdown")
            /\ daemon' = [daemon EXCEPT !.handler = "close"]
       ELSE /\ UNCHANGED closes
            /\ daemon' = [daemon EXCEPT !.handler = "done"]
    /\ UNCHANGED <<connVars, InsecureSkipVerify, tools, nextHandle, call,
                   obs, hist, last>>

\* m.lncConnection.Close() returns; Stop returns; close(d.shutdownComplete).
CloseReturns ==
    /\ daemon.handler = "close"
    /\ daemon' = [daemon EXCEPT !.handler = "done"]
    /\ UNCHANGED <<connVars, InsecureSkipVerify, tools, nextHandle, closes,
                   shutdown, call, obs, hist, last>>

\* The shutdown timeout passes while Close has not returned: shutdownCtx is
\* done, which nothing waits for.
ShutdownTimeout ==
    /\ daemon.handler = "close"
    /\ ~daemon.expired
    /\ daemon' = [daemon EXCEPT !.expired = TRUE]
    /\ UNCHANGED <<connVars, InsecureSkipVerify, tools, nextHandle, closes,
                   shutdown, call, obs, hist, last>>

\* Daemon.Start: <-d.shutdownComplete, then return nil.
StartReturns ==
    /\ daemon.start = "wait"
    /\ ~Panicked
    /\ daemon.handler = "done"
    /\ daemon' = [daemon EXCEPT !.start = "returned", !.ret = "nil"]
    /\ UNCHANGED <<connVars, InsecureSkipVerify, tools, nextHandle, closes,
                   shutdown, call, obs, hist, last>>

\* What d.server.Start() can return when the serve loop ends.
ServeResults == {"nil", "context.Canceled", "error"}

\* The goroutine of Daemon.Start: d.server.Start() returns err, which is
\* sent on serverErrChan (buffered, capacity 1) unless it is nil.
ServeReturns(err) ==
    /\ tools # <<>>
    /\ ~Panicked
    /\ HostFree
    /\ daemon.serve = "running"
    /\ daemon' = [daemon EXCEPT !.serve = err,
                                !.errChan = IF err = "nil" THEN @ ELSE err]
    /\ UNCHANGED <<connVars, InsecureSkipVerify, tools, nextHandle, closes,
                   shutdown, call, obs, hist, last>>

\* Daemon.Start: the select takes  err := <-serverErrChan.  An error other
\* than context.Canceled: close(d.quit); return err.  Otherwise Start goes
\* on to  <-d.shutdownComplete.
StartServerErr ==
    /\ daemon.start = "select"
    /\ ~Panicked
    /\ daemon.errChan # ""
    /\ daemon' = IF daemon.errChan # "context.Canceled"
                 THEN [daemon EXCEPT !.errChan = "",
                                     !.quit = @ + 1,
                                     !.start = IF daemon.quit = 0
                                               THEN "returned" ELSE @,
                                     !.ret = IF daemon.quit = 0
                                             THEN "error" ELSE @]
                 ELSE [daemon EXCEPT !.errChan = "", !.start = "wait"]
    /\ UNCHANGED <<connVars, InsecureSkipVerify, tools, nextHandle, closes,
                   shutdown, call, obs, hist, last>>

\* Daemon.Start: the select takes  <-d.quit  (closed by Stop).
StartQuit ==
    /\ daemon.start = "select"
    /\ ~Panicked
    /\ daemon.quit > 0
    /\ daemon' = [daemon EXCEPT !.start = "wait"]
    /\ UNCHANGED <<connVars, InsecureSkipVerify, tools, nextHandle, closes,
                   shutdown, call, obs, hist, last>>

\* Daemon.Stop is called: the select on d.quit returns at once when quit is
\* closed, and otherwise falls through its default case.
StopCheck ==
    /\ tools # <<>>
    /\ ~Panicked
    /\ daemon.stop \in {"idle", "returned"}
    /\ daemon' = [daemon EXCEPT !.stop = IF daemon.quit > 0 THEN "returned"
                                         ELSE "checked"]
    /\ UNCHANGED <<connVars, InsecureSkipVerify, tools, nextHandle, closes,
                   shutdown, call, obs, hist, last>>

\* Daemon.Stop after the check:  close(d.quit)
StopClose ==
    /\ daemon.stop = "checked"
    /\ ~Panicked
    /\ daemon' = [daemon EXCEPT !.quit = @ + 1, !.stop = "returned"]
    /\ UNCHANGED <<connVars, InsecureSkipVerify, tools, nextHandle, closes,
                   shutdown, call, obs, hist, last>>

\* ---------------------------------------------------- query services
\* A string argument of a tool call, or an absent / non-string one.
Str(s) == [isString |-> TRUE, str |-> s]
Absent == [isString |-> FALSE, str |-> ""]

InvoiceArgs == {Absent, Str("ln"), Str("xyz12"), Str("lnbc1")}
PubKeyArgs == {Absent, Str("02abc")}
\* A payment_hash argument by its length and whether it is hex.
PaymentHashArgs ==
    {[isString |-> FALSE, len |-> 0, hex |-> FALSE],
     [isString |-> TRUE, len |-> 10, hex |-> TRUE],
     [isString |-> TRUE, len |-> 64, hex |-> FALSE],
     [isString |-> TRUE, len |-> 64, hex |-> TRUE]}
\* target_conf; 0 is also what an absent or non-number argument yields.
TargetConfArgs == {0, 1, 2, 6, 144, -1}
\* The targets the schema of lnc_estimate_fee admits.
SchemaTargets == 1..144
\* The targets for which the node's EstimateFee succeeds.
FeeOutcomes == {{}, {6}, SchemaTargets}

\* The handler's answer is observed; queries change nothing else.
Answer(tool, svc, r) ==
    /\ last' = [NoLast EXCEPT !.tool = tool,
                              !.result = r.result,
                              !.rpcs = r.rpcs,
                              !.targets = r.targets,
                              !.estimates = r.estimates,
                              !.badArgs = r.badArgs,
                              !.targetConf = r.targetConf,
                              !.okTargets = r.okTargets,
                              !.client = LightningClient[svc],
                              !.clientClosed =
                                  (LightningClient[svc] # Nil
                                   /\ r.rpcs # <<>>
                                   /\ closes[LightningClient[svc]] # <<>>)]
    /\ obs' = [c \in Calls |-> IF call[c].pc = "idle" THEN NoObs ELSE obs[c]]
    /\ UNCHANGED <<connVars, InsecureSkipVerify, tools, nextHandle, closes,
                   lifeVars, call, hist>>

Reply(result, rpcs) ==
    [result |-> result, rpcs |-> rpcs, targets |-> <<>>, estimates |-> {},
     badArgs |-> FALSE, targetConf |-> 0, okTargets |-> {}]

\* SingleRPC without the nil check of s.LightningClient.
SingleRPC_NoNilCheck(svc, argError, rpc, ok, failMsg) ==
    IF argError # "" THEN [Reply(argError, <<>>) EXCEPT !.badArgs = TRUE]
    ELSE IF ~ok THEN Reply(failMsg, <<rpc>>)
    ELSE Reply("ok", <<rpc>>)

\* The shape the handlers share: the nil check of s.LightningClient, the
\* validation of the arguments (argError, "" when they pass), one RPC.
\* badArgs observes that the required arguments would not pass.
SingleRPC(svc, argError, rpc, ok, failMsg) ==
    IF LightningClient[svc] = Nil
    THEN [Reply(NotConnected, <<>>) EXCEPT !.badArgs = (argError # "")]
    ELSE IF argError # "" THEN [Reply(argError, <<>>) EXCEPT !.badArgs = TRUE]
    ELSE IF ~ok THEN Reply(failMsg, <<rpc>>)
    ELSE Reply("ok", <<rpc>>)

HandleGetInfo(ok) ==
    /\ Dispatch("lnc_get_info")
    /\ Answer("lnc_get_info", "node",
           SingleRPC("node", "", "GetInfo", ok, "Failed to get node info"))

HandleGetBalance(ok1, ok2) ==
    /\ Dispatch("lnc_get_balance")
    /\ Answer("lnc_get_balance", "node",
           IF LightningClient["node"] = Nil THEN Reply(NotConnected, <<>>)
           ELSE IF ~ok1
           THEN Reply("Failed to get wallet balance", <<"WalletBalance">>)
           ELSE IF ~ok2
           THEN Reply("Failed to get channel balance",
                      <<"WalletBalance", "ChannelBalance">>)
           ELSE Reply("ok", <<"WalletBalance", "ChannelBalance">>))

DecodeInvoiceArgError(invoice) ==
    IF ~invoice.isString THEN "invoice is required"
    ELSE IF Len(invoice.str) < 3 \/ SubSeq(invoice.str, 1, 2) # "ln"
    THEN "invalid BOLT11 invoice format"
    ELSE ""

HandleDecodeInvoice(invoice, ok) ==
    /\ Dispatch("lnc_decode_invoice")
    /\ Answer("lnc_decode_invoice", "invoice",
           SingleRPC("invoice", DecodeInvoiceArgError(invoice),
                     "DecodePayReq", ok, "Failed to decode invoice"))

HandleListInvoices(ok) ==
    /\ Dispatch("lnc_list_invoices")
    /\ Answer("lnc_list_invoices", "invoice",
           SingleRPC("invoice", "", "ListInvoices", ok,
                     "Failed to list invoices"))

LookupInvoiceArgError(paymentHash) ==
    IF ~paymentHash.isString THEN "payment_hash is required"
    ELSE IF paymentHash.len # 64
    THEN "payment_hash must be a 64-character hex string"
    ELSE IF ~paymentHash.hex THEN "invalid payment_hash format"
    ELSE ""

HandleLookupInvoice(paymentHash, ok) ==
    /\ Dispatch("lnc_lookup_invoice")
    /\ Answer("lnc_lookup_invoice", "invoice",
           SingleRPC("invoice", LookupInvoiceArgError(paymentHash),
                     "LookupInvoice", ok, "Failed to lookup invoice"))

HandleListChannels(ok) ==
    /\ Dispatch("lnc_list_channels")
    /\ Answer("lnc_list_channels", "channel",
           SingleRPC("channel", "", "ListChannels", ok,
                     "Failed to list channels"))

HandlePendingChannels(ok) ==
    /\ Dispatch("lnc_pending_channels")
    /\ Answer("lnc_pending_channels", "channel",
           SingleRPC("channel", "", "PendingChannels", ok,
                     "Failed to get pending channels"))

HandleListPayments(ok) ==
    /\ Dispatch("lnc_list_payments")
    /\ Answer("lnc_list_payments", "payment",
           SingleRPC("payment", "", "ListPayments", ok,
                     "Failed to list payments"))

TrackPaymentArgError(paymentHash) ==
    IF ~paymentHash.isString THEN "payment_hash is required"
    ELSE IF paymentHash.len # 64
    THEN "payment_hash must be a 64-character hex string"
    ELSE ""

HandleTrackPayment(paymentHash, ok) ==
    /\ Dispatch("lnc_track_payment")
    /\ Answer("lnc_track_payment", "payment",
           SingleRPC("payment", TrackPaymentArgError(paymentHash),
                     "ListPayments", ok, "Failed to fetch payment"))

HandleListUnspent(ok) ==
    /\ Dispatch("lnc_list_unspent")
    /\ Answer("lnc_list_unspent", "onchain",
           SingleRPC("onchain", "", "ListUnspent", ok,
                     "Failed to list unspent"))

HandleGetTransactions(ok) ==
    /\ Dispatch("lnc_get_transactions")
    /\ Answer("lnc_get_transactions", "onchain",
           SingleRPC("onchain", "", "GetTransactions", ok,
                     "Failed to get transactions"))

\* The loop of HandleEstimateFee from target FeeTargets[i] on: the targets
\* an RPC was issued for, and those an estimate was stored for.
RECURSIVE FeeLoop(_, _, _, _, _)
FeeLoop(i, targetConf, okTargets, issued, estimates) ==
    IF i > Len(FeeTargets)
    THEN [issued |-> issued, estimates |-> estimates]
    ELSE LET target == FeeTargets[i] IN
         IF targetConf > 0 /\ target # targetConf
         THEN FeeLoop(i + 1, targetConf, okTargets, issued, estimates)
         ELSE IF target \notin okTargets
         THEN FeeLoop(i + 1, targetConf, okTargets,
                      Append(issued, target), estimates)
         ELSE IF targetConf > 0
         THEN [issued |-> Append(issued, target),
               estimates |-> estimates \cup {target}]
         ELSE FeeLoop(i + 1, targetConf, okTargets,
                      Append(issued, target), estimates \cup {target})

HandleEstimateFee(targetConfArg, okTargets) ==
    /\ Dispatch("lnc_estimate_fee")
    /\ Answer("lnc_estimate_fee", "onchain",
           IF LightningClient["onchain"] = Nil THEN Reply(NotConnected, <<>>)
           ELSE LET targetConf == IF targetConfArg = 0 THEN 6
                                   ELSE targetConfArg
                    loop == FeeLoop(1, targetConf, okTargets, <<>>, {})
                IN  [result |-> IF loop.estimates = {}
                                THEN "Failed to get fee estimates" ELSE "ok",
                     rpcs |-> [k \in 1..Len(loop.issued) |-> "EstimateFee"],
                     targets |-> loop.issued,
                     estimates |-> loop.estimates,
                     badArgs |-> FALSE,
                     targetConf |-> targetConfArg,
                     okTargets |-> okTargets])

HandleListPeers(ok) ==
    /\ Dispatch("lnc_list_peers")
    /\ Answer("lnc_list_peers", "peer",
           SingleRPC("peer", "", "ListPeers", ok, "Failed to list peers"))

HandleDescribeGraph(ok) ==
    /\ Dispatch("lnc_describe_graph")
    /\ Answer("lnc_describe_graph", "peer",
           SingleRPC("peer", "", "DescribeGraph", ok,
                     "Failed to describe graph"))

GetNodeInfoArgError(pubKey) ==
    IF ~pubKey.isString THEN "pub_key is required" ELSE ""

HandleGetNodeInfo(pubKey, ok) ==
    /\ Dispatch("lnc_get_node_info")
    /\ Answer("lnc_get_node_info", "peer",
           SingleRPC("peer", GetNodeInfoArgError(pubKey), "GetNodeInfo", ok,
                     "Failed to get node info"))

\* -------------------------------------------------------- specification
ConnectStep(c) ==
    \/ \E params \in ConnectParams, keyOK \in BOOLEAN :
           connectToLNC(c, params, keyOK)
    \/ \E outcome \in {"error", "noConnector", "connector"} :
           NewClientWebsocketConn(c, outcome)
    \/ OnRemoteKey(c)
    \/ OnAuthData(c)
    \/ CtxCancel(c)
    \/ CtxDeadline(c)
    \/ GraceWaitCancelled(c)
    \/ GraceWaitElapsed(c)
    \/ PollLoop(c)
    \/ PollSleep(c)
    \/ lndConnectCall(c)
    \/ \E ok \in BOOLEAN : lndConnectReturn(c, ok)
    \/ GetInfoCall(c)
    \/ \E ok \in BOOLEAN : GetInfoReturn(c, ok)
    \/ StoreConnection(c)
    \/ ConnectionCallback(c)

\* The host serves an lnc_connect call, with any arguments.
ConnectCall ==
    \E c \in FreeSlots, phrase \in PhraseArgs, password \in PasswordArgs :
        HandleConnect(c, phrase, password)

QueryCall ==
    \/ \E ok \in BOOLEAN : HandleGetInfo(ok)
    \/ \E ok1 \in BOOLEAN, ok2 \in BOOLEAN : HandleGetBalance(ok1, ok2)
    \/ \E invoice \in InvoiceArgs, ok \in BOOLEAN :
           HandleDecodeInvoice(invoice, ok)
    \/ \E ok \in BOOLEAN : HandleListInvoices(ok)
    \/ \E h \in PaymentHashArgs, ok \in BOOLEAN : HandleLookupInvoice(h, ok)
    \/ \E ok \in BOOLEAN : HandleListChannels(ok)
    \/ \E ok \in BOOLEAN : HandlePendingChannels(ok)
    \/ \E ok \in BOOLEAN : HandleListPayments(ok)
    \/ \E h \in PaymentHashArgs, ok \in BOOLEAN : HandleTrackPayment(h, ok)
    \/ \E ok \in BOOLEAN : HandleListUnspent(ok)
    \/ \E ok \in BOOLEAN : HandleGetTransactions(ok)
    \/ \E t \in TargetConfArgs, okTargets \in FeeOutcomes :
           HandleEstimateFee(t, okTargets)
    \/ \E ok \in BOOLEAN : HandleListPeers(ok)
    \/ \E ok \in BOOLEAN : HandleDescribeGraph(ok)
    \/ \E k \in PubKeyArgs, ok \in BOOLEAN : HandleGetNodeInfo(k, ok)

Next ==
    \/ \E mcpServer \in MCPServers : NewServer(mcpServer)
    \/ ConnectCall
    \/ ConnectStep(Worker)
    \/ HandleDisconnect
    \/ QueryCall
    \/ Shutdown

Spec == Init /\ [][Next]_vars

\* The program with the daemon's shutdown in steps, in place of the single
\* step Shutdown.
DaemonNext ==
    \/ \E mcpServer \in MCPServers : NewServer(mcpServer)
    \/ ConnectCall
    \/ ConnectStep(Worker)
    \/ HandleDisconnect
    \/ QueryCall
    \/ ReceiveSignal
    \/ shutdownHandler
    \/ CloseReturns
    \/ ShutdownTimeout
    \/ StartReturns

DaemonSpec == Init /\ [][DaemonNext]_vars

\* The steps Daemon.Start and shutdownHandler take by themselves.
DaemonStep ==
    \/ StartServerErr
    \/ StartQuit
    \/ shutdownHandler
    \/ StartReturns

\* The life cycle of the daemon: the serve loop ends, a signal arrives,
\* Daemon.Stop is called, while the tools that need no negotiation are served.
LifecycleNext ==
    \/ \E mcpServer \in MCPServers : NewServer(mcpServer)
    \/ HandleDisconnect
    \/ QueryCall
    \/ \E err \in ServeResults : ServeReturns(err)
    \/ ReceiveSignal
    \/ StopCheck
    \/ StopClose
    \/ StartServerErr
    \/ StartQuit
    \/ shutdownHandler
    \/ StartReturns

LifecycleSpec == Init /\ [][LifecycleNext]_vars

\* Daemon.Start and shutdownHandler go on whenever they can, and so does a
\* call of Daemon.Stop once made; signals and calls of Daemon.Stop need not
\* happen.
LifecycleLiveSpec ==
    LifecycleSpec /\ WF_vars(DaemonStep) /\ WF_vars(StopClose)

\* A running lnc_connect call goes on: its timers fire, its sleeps end and
\* the calls it makes to the relay and to the node return.
LiveSpec == Spec /\ WF_vars(ConnectStep(Worker))

\* ------------------------------------------------------------ properties
\* Call slot c holds an lnc_connect call that is running or has returned.
Started(c) == call[c].pc # "idle" \/ obs[c].result # ""

ValidationErrors ==
    {"pairingPhrase is required", "password is required",
     "pairingPhrase must contain exactly 10 words"}

\* C1: an lnc_connect call whose pairing phrase does not have exactly 10
\* white-space separated tokens is rejected with a tool-level validation
\* error before the relay session constructor, the connector or any RPC is
\* invoked, and stores no handle.
C1_RejectsNon10Tokens ==
    \A c \in Calls :
        (Started(c) /\ obs[c].args.given /\ obs[c].args.tokens # WordCount) =>
            /\ call[c].pc = "idle"
            /\ obs[c].result \in ValidationErrors
            /\ obs[c].ctor = 0
            /\ obs[c].connector = 0
            /\ obs[c].rpcs = <<>>
            /\ obs[c].conn = Nil

\* C2: an lnc_connect call whose pairing phrase has exactly 10 non-empty
\* tokens, however irregular the white space between and around them, is not
\* rejected by the word-count validation.
C2_Accepts10Tokens ==
    \A c \in Calls :
        (Started(c) /\ obs[c].args.given /\ obs[c].args.tokens = WordCount) =>
            obs[c].result # "pairingPhrase must contain exactly 10 words"

\* C3: after any sequence of connect / disconnect calls (no tool call in
\* progress) no handle other than the current one remains open, so at most
\* one transport handle is open.
C3_AtMostOneOpenHandle ==
    HostFree => /\ OpenHandles \subseteq {Connection}
                /\ Cardinality(OpenHandles) <= 1

\* C4: a transport handle that was stored after a successful connect is
\* never closed a second time (by lnc_disconnect and then again by
\* Manager.Shutdown).
C4_ClosedAtMostOnce ==
    \A h \in hist.stored : Len(closes[h]) <= 1

C6_NoConnectorNoRPC ==
    \A c \in Calls :
        obs[c].noConnector =>
            /\ obs[c].connector = 0
            /\ obs[c].rpcs = <<>>
            /\ obs[c].conn = Nil
            /\ call[c].pc \in {"grace", "idle"}
            /\ call[c].pc = "idle" =>
                   obs[c].result \in
                       {"lndConnect function not available after connection setup",
                        "connection cancelled"}

C6_Witness ==
    \E c \in Calls :
        /\ obs[c].noConnector
        /\ obs[c].result =
               "lndConnect function not available after connection setup"

\* C7: when the governing context is cancelled or expires during the grace
\* wait or the poll loop, the connector function is not invoked afterwards
\* and the negotiation ends with the cancellation error.
C7_CancelInWaitEndsCancelled ==
    \A c \in Calls :
        obs[c].donePhase \in {"grace", "poll"} =>
            /\ obs[c].connector = 0
            /\ call[c].pc = "idle" => obs[c].result = "connection cancelled"

\* C8: every lnc_disconnect returns the success payload and leaves no handle
\* stored; when no handle is stored, or when it directly follows another
\* lnc_disconnect, it performs no Close and changes no connection state.
C8_DisconnectIdempotent ==
    [][HandleDisconnect =>
          /\ last'.result = "disconnected"
          /\ Connection' = Nil
          /\ (Connection = Nil \/ last.tool = "lnc_disconnect") =>
                 /\ closes' = closes
                 /\ UNCHANGED connVars]_vars

\* A handle was stored and closed by lnc_disconnect, and the following
\* lnc_disconnect found nothing to close.
C8_Witness ==
    /\ last.tool = "lnc_disconnect"
    /\ ~last.hadConnection
    /\ \E h \in hist.stored : closes[h] = <<"HandleDisconnect">>

QueryTools == Range(RegisteredTools) \ {"lnc_connect", "lnc_disconnect"}

\* C9: a query tool called while its service's client is absent returns the
\* not-connected error and issues no RPC; before the first successful
\* lnc_connect every service's client is absent.
C9_NotConnectedWhenClientAbsent ==
    /\ (last.tool \in QueryTools /\ last.client = Nil) =>
           /\ last.result = NotConnected
           /\ last.rpcs = <<>>
    /\ hist.notified = {} =>
           /\ \A s \in Services : LightningClient[s] = Nil
           /\ last.tool \in QueryTools => last.result = NotConnected

C9_Witness ==
    /\ last.tool = "lnc_decode_invoice"
    /\ last.client = Nil
    /\ last.result = NotConnected

MutatingTools ==
    {"lnc_send_payment", "lnc_pay_invoice", "lnc_open_channel",
     "lnc_close_channel", "lnc_send_coins", "lnc_new_address",
     "lnc_create_invoice", "lnc_connect_peer", "lnc_disconnect_peer"}

ReadOnlyRPCs ==
    {"GetInfo", "WalletBalance", "ChannelBalance", "ListChannels",
     "PendingChannels", "ListInvoices", "LookupInvoice", "DecodePayReq",
     "ListPayments", "ListUnspent", "GetTransactions", "EstimateFee",
     "ListPeers", "DescribeGraph", "GetNodeInfo"}

\* C10: no mutating tool is registered, and every RPC a handler issues (the
\* query handlers and the liveness check of lnc_connect) is a read-only one.
C10_ReadOnly ==
    /\ Range(tools) \cap MutatingTools = {}
    /\ Range(last.rpcs) \subseteq ReadOnlyRPCs
    /\ \A c \in Calls : Range(obs[c].rpcs) \subseteq ReadOnlyRPCs

C10_Witness ==
    /\ tools # <<>>
    /\ last.tool = "lnc_track_payment"
    /\ last.rpcs # <<>>

\* C11: RegisterTools on a server adds each of the 17 tools exactly once
\* (as many AddTool calls as distinct names) and returns no error; on a nil
\* server it returns an error and adds nothing.
C11_RegistersEachToolOnce ==
    /\ hist.mcpServer = "server" =>
           /\ hist.registerErr = ""
           /\ Len(tools) = 17
           /\ Cardinality(Range(tools)) = Len(tools)
    /\ hist.mcpServer = "nil" =>
           /\ hist.registerErr # ""
           /\ tools = <<>>
    /\ hist.mcpServer = "" => tools = <<>>

C11_Witness ==
    /\ hist.mcpServer = "server"
    /\ Len(tools) = 17
    /\ last.tool = "lnc_get_info"

\* The tool-level errors with which the query handlers reject arguments.
QueryArgErrors ==
    {"invoice is required", "invalid BOLT11 invoice format",
     "payment_hash is required",
     "payment_hash must be a 64-character hex string",
     "invalid payment_hash format", "pub_key is required"}

\* C12: a query tool call that passes validation while its service holds a
\* client issues exactly one RPC to the node.
C12_ExactlyOneRPC ==
    (/\ last.tool \in QueryTools
     /\ last.client # Nil
     /\ last.result \notin QueryArgErrors) => Len(last.rpcs) = 1

\* The steps of a negotiation that call out, with the error each reports.
StepErrors ==
    <<"failed to create mailbox connection",
      "failed to establish LND connection",
      "connected but failed to get node info">>

\* How often an lnc_connect call has invoked the relay session constructor,
\* the connector function and the liveness RPC.
Invocations(c) == <<obs[c].ctor, obs[c].connector, Len(obs[c].rpcs)>>

\* C13: within one lnc_connect call the relay session constructor, the
\* connector function and the liveness RPC are each invoked at most once,
\* and the first of them that fails ends the call with its error: no later
\* step has been invoked and none is invoked again.
C13_NoRetry ==
    \A c \in Calls :
        /\ \A i \in 1..3 : Invocations(c)[i] <= 1
        /\ \A i \in 1..3 :
              obs[c].result = StepErrors[i] =>
                  /\ call[c].pc = "idle"
                  /\ \A j \in 1..3 :
                        Invocations(c)[j] = (IF j <= i THEN 1 ELSE 0)
        /\ obs[c].result = "connected" => Invocations(c) = <<1, 1, 1>>

C13_Witness ==
    \E c \in Calls :
        /\ obs[c].result = "failed to establish LND connection"
        /\ Invocations(c) = <<1, 1, 0>>

\* C14: an lnc_connect call whose password is absent, not a string or the
\* empty string is rejected with a tool-level error before the relay session
\* constructor, the connector or any RPC is invoked.
C14_RequiresNonEmptyPassword ==
    \A c \in Calls :
        (/\ Started(c)
         /\ obs[c].args.given
         /\ obs[c].args.password \in {"absent", ""}) =>
            /\ call[c].pc = "idle"
            /\ obs[c].result \in ValidationErrors
            /\ Invocations(c) = <<0, 0, 0>>

\* The tools that have required arguments.
ToolsWithRequiredArgs ==
    {"lnc_connect", "lnc_decode_invoice", "lnc_lookup_invoice",
     "lnc_track_payment", "lnc_get_node_info"}

\* C15: a call of a tool with required arguments in which one of them is
\* missing or malformed returns a tool-level error and invokes neither an
\* RPC nor the relay: for the query tools the answer is an error result with
\* no RPC, for lnc_connect (pairing phrase absent or not of 10 tokens,
\* password absent) a validation error with no relay call and no RPC.
C15_BadArgsRejectedLocally ==
    /\ (last.tool \in ToolsWithRequiredArgs /\ last.badArgs) =>
           /\ last.result \in QueryArgErrors \cup {NotConnected}
           /\ last.rpcs = <<>>
    /\ \A c \in Calls :
          (/\ Started(c)
           /\ obs[c].args.given
           /\ \/ obs[c].args.tokens # WordCount
              \/ obs[c].args.password = "absent") =>
              /\ call[c].pc = "idle"
              /\ obs[c].result \in ValidationErrors
              /\ Invocations(c) = <<0, 0, 0>>

\* The tool-level errors an lnc_connect call can end with.
ConnectFailures ==
    ValidationErrors \cup Range(StepErrors)
    \cup {"failed to generate private key",
          "lndConnect function not available after connection setup",
          "connection cancelled"}

\* C16: every lnc_connect call whose external calls return terminates, and
\* a call that has returned has returned either the success payload or one
\* of the tool-level errors (there is no other way out of the handler).
C16_ConnectTerminates ==
    /\ [](\A c \in Calls :
             (call[c].pc = "idle" /\ obs[c].result # "") =>
                 obs[c].result \in {"connected"} \cup ConnectFailures)
    /\ \A c \in Calls :
          (call[c].pc # "idle") ~>
              (/\ call[c].pc = "idle"
               /\ obs[c].result \in {"connected"} \cup ConnectFailures)

\* A call went through the whole negotiation and returned success.
C16_Witness ==
    \E c \in Calls :
        /\ call[c].pc = "idle"
        /\ obs[c].result = "connected"
        /\ obs[c].conn = Connection

\* C17: when an lnc_connect attempt has devMode or insecure set, or a relay
\* address that begins with "localhost" or "127.0.0.1", certificate
\* validation of the process-wide transport is disabled when the relay
\* session constructor is about to be called, is disabled during the whole
\* attempt, and no step ever enables it again.
C17_InsecureTLSForDevRelay ==
    /\ [](\A c \in Calls :
             /\ (call[c].pc = "mailbox" /\ obs[c].args.tlsCase # "remote") =>
                    (obs[c].insecureTLS /\ InsecureSkipVerify)
             /\ (call[c].pc # "idle" /\ obs[c].insecureTLS) =>
                    InsecureSkipVerify)
    /\ [][InsecureSkipVerify => InsecureSkipVerify']_vars

\* An attempt against a relay on 127.0.0.1 is about to open the session.
C17_Witness ==
    \E c \in Calls :
        /\ call[c].pc = "mailbox"
        /\ obs[c].args.tlsCase = "127.0.0.1"
        /\ InsecureSkipVerify

\* C18: after a shutdown signal Daemon.Start returns no later than the
\* expiry of the shutdown timeout, even when closing the handle does not
\* return: once the timeout has expired, Start has returned.  And Start
\* returns only after the shutdown handler has stopped the server.
C18_ShutdownBoundedByTimeout ==
    /\ daemon.expired => daemon.start = "returned"
    /\ daemon.start = "returned" => (shutdown /\ daemon.handler = "done")

\* C19: when LNC_CONNECT_TIMEOUT is set to n (seconds), the deadline of the
\* context that governs the negotiation is n seconds; when it is unset the
\* deadline is the default one.
C19_EnvTimeoutGovernsDeadline ==
    \A c \in Calls :
        (call[c].pc = "mailbox" /\ obs[c].args.given) =>
            LET envTimeout == obs[c].args.envTimeout IN
            /\ Atoi(envTimeout).ok =>
                   call[c].deadline = Atoi(envTimeout).val * 1000
            /\ envTimeout = <<>> => call[c].deadline = RequestTimeout

\* C20: when an lnc_connect call has returned success, its new handle is the
\* one stored in Connection and in the manager, and each of the six query
\* services holds a client on that handle; from then on a query call finds a
\* client and attempts its RPC instead of answering not-connected.
C20_SuccessPublishesHandle ==
    /\ \A c \in Calls :
          (call[c].pc = "idle" /\ obs[c].result = "connected") =>
              /\ obs[c].conn # Nil
              /\ Connection = obs[c].conn
              /\ lncConnection = obs[c].conn
              /\ \A s \in Services : LightningClient[s] = obs[c].conn
    /\ hist.notified # {} =>
          /\ \A s \in Services : LightningClient[s] \in hist.notified
          /\ last.tool \in QueryTools =>
                 (last.client # Nil /\ last.result # NotConnected)

\* After a successful lnc_connect a query was served over the new handle.
C20_Witness ==
    /\ last.tool = "lnc_list_peers"
    /\ last.client \in hist.notified
    /\ last.client = Connection
    /\ last.rpcs = <<"ListPeers">>

\* The steps of a successful negotiation, in the order of connectToLNC.
StepOrder ==
    <<"session", "grace", "poll", "connector", "handle", "liveness", "alive",
      "handed">>

\* C21: the steps of one negotiation happen in the order of StepOrder: the
\* relay session constructor before the grace wait, the connector only after
\* the grace wait has elapsed and the poll loop has ended, the liveness RPC
\* only after the connector returned a handle, and the handle is handed to
\* the caller (and stored) only after the liveness RPC succeeded.
C21_StepsInOrder ==
    \A c \in Calls :
        /\ Len(obs[c].steps) <= Len(StepOrder)
        /\ obs[c].steps = SubSeq(StepOrder, 1, Len(obs[c].steps))
        /\ call[c].pc = "grace" => obs[c].ctor = 1
        /\ obs[c].connector > 0 =>
               (obs[c].ctor = 1 /\ Len(obs[c].steps) >= 4)
        /\ obs[c].rpcs # <<>> =>
               (obs[c].conn # Nil /\ Len(obs[c].steps) >= 6)
        /\ (obs[c].conn \in hist.stored \/ obs[c].result = "connected") =>
               Len(obs[c].steps) >= 7

\* A negotiation went through all its steps.
C21_Witness ==
    \E c \in Calls :
        /\ call[c].pc = "notify"
        /\ obs[c].steps = StepOrder

BothCallbacks(c) == call[c].authReceived /\ call[c].remotePub

\* C22: the poll loop ends at the first check that finds both callbacks
\* fired, and otherwise at its 5 s ceiling; once it has ended the next step
\* of the negotiation is the call of the connector function, also when one
\* or both callbacks have not fired.  (A pass of the loop that finds the
\* context done, below the ceiling, ends the negotiation instead.)
C22_PollLoopEndsThenConnects ==
    /\ [](\A c \in Calls :
             /\ call[c].elapsed <= maxWaitTime
             /\ call[c].pc = "connect" =>
                    (BothCallbacks(c) \/ call[c].elapsed >= maxWaitTime))
    /\ [][\A c \in Calls :
             (call[c].pc = "poll" /\ call'[c].pc # "poll") =>
                 IF \/ call[c].elapsed >= maxWaitTime
                    \/ (call[c].ctxErr = "" /\ BothCallbacks(c))
                 THEN call'[c].pc = "connect"
                 ELSE IF call[c].ctxErr # ""
                 THEN /\ call'[c].pc = "idle"
                      /\ obs'[c].result = "connection cancelled"
                 ELSE call'[c].pc = "sleep"]_vars
    /\ [][\A c \in Calls :
             (call[c].pc = "connect" /\ call'[c].pc # "connect") =>
                 /\ call'[c].pc = "connecting"
                 /\ obs'[c].connector = obs[c].connector + 1]_vars

\* The connector is being called after the ceiling, no callback having fired.
C22_Witness ==
    \E c \in Calls :
        /\ call[c].pc = "connecting"
        /\ ~call[c].authReceived
        /\ ~call[c].remotePub
        /\ call[c].elapsed = maxWaitTime
        /\ call[c].ctxErr = ""

\* C23 as stated: a context that is cancelled or expires once the poll loop
\* has ended aborts neither the connector call nor the liveness RPC.
C23_CancelAbortsNeitherCall ==
    \A c \in Calls :
        obs[c].donePhase \in {"connector", "liveness"} =>
            /\ ~obs[c].ctxAborted
            /\ obs[c].result # "connection cancelled"

\* C23 amended: a context that is cancelled or expires once the poll loop has
\* ended does not abort the connector call, which is still made and ends only
\* by returning a handle or its own error; the liveness RPC is issued under
\* that context, and when the context was done before the RPC was issued the
\* RPC fails, the handle is closed and never stored, and the call ends with
\* the liveness error.
C23_OnlyConnectorUncancellable ==
    /\ [](\A c \in Calls :
             (/\ obs[c].donePhase = "connector"
              /\ call[c].pc = "idle"
              /\ obs[c].result # "") =>
                 /\ obs[c].connector = 1
                 /\ obs[c].result \in
                        {"failed to establish LND connection",
                         "connected but failed to get node info"}
                 /\ obs[c].conn # Nil =>
                        /\ obs[c].ctxAborted
                        /\ closes[obs[c].conn] = <<"connectToLNC">>
                        /\ obs[c].conn \notin hist.stored)
    /\ [][\A c \in Calls :
             (call[c].pc = "connecting" /\ call'[c].pc # "connecting") =>
                 \/ call'[c].pc = "getinfo"
                 \/ /\ call'[c].pc = "idle"
                    /\ obs'[c].result = "failed to establish LND connection"]_vars

\* The context ended during the connector call, the connector returned a
\* handle all the same, and the liveness RPC was aborted.
C23_Witness ==
    \E c \in Calls :
        /\ obs[c].donePhase = "connector"
        /\ obs[c].conn # Nil
        /\ obs[c].ctxAborted
        /\ obs[c].result = "connected but failed to get node info"

\* C24: whenever no tool call is in progress, ConnectionService.Connection,
\* Manager.lncConnection and the clients of the six query services refer to
\* the same handle, or are all absent.
C24_HandleFieldsAgree ==
    HostFree =>
        /\ Connection = lncConnection
        /\ \A s \in Services : LightningClient[s] = Connection

\* C25: no query tool issues an RPC over a handle that has been closed, and
\* while ConnectionService holds no handle (after a disconnect, until the
\* next successful connect) a query returns the not-connected error and
\* issues no RPC.
C25_NoRPCOverClosedHandle ==
    last.tool \in QueryTools =>
        /\ ~last.clientClosed
        /\ Connection = Nil =>
               (last.result = NotConnected /\ last.rpcs = <<>>)

\* C26: an attempt with devMode false, insecure false and a relay address
\* that starts with neither "localhost" nor "127.0.0.1" opens its relay
\* session with certificate validation enabled on the process-wide
\* transport, whatever attempts ran before it; and a call rejected at
\* argument validation leaves the transport configuration as it was.
C26_SecureAttemptValidatesCertificates ==
    /\ [](\A c \in Calls :
             (call[c].pc = "mailbox" /\ obs[c].args.tlsCase = "remote") =>
                 ~InsecureSkipVerify)
    /\ [][\A c \in Calls :
             (/\ call[c].pc = "idle"
              /\ call'[c].pc = "idle"
              /\ obs'[c].result \in ValidationErrors) =>
                 InsecureSkipVerify' = InsecureSkipVerify]_vars

\* C27: close(d.quit) is executed at most once, whatever the interleaving
\* of Daemon.Stop calls, a shutdown signal and a server error; a Stop call
\* that finds quit closed returns without closing it.
C27_QuitClosedAtMostOnce ==
    /\ [](daemon.quit <= 1)
    /\ [][(daemon.stop # "checked" /\ daemon.quit > 0
           /\ daemon'.stop # daemon.stop) =>
              (daemon'.stop = "returned" /\ daemon'.quit = daemon.quit)]_vars

\* C28: when Daemon.Start has returned, with nil or with the server's error,
\* the shutdown handler has run to completion: Manager.Shutdown was executed
\* and shutdownComplete was closed.
C28_StartReturnsAfterShutdown ==
    daemon.ret # "" => (shutdown /\ daemon.handler = "done")

\* C29: once the serve loop has ended, with nil, context.Canceled or another
\* error, Daemon.Start eventually returns (shutdown having been initiated),
\* with no signal and no Stop call needed.
C29_ServeEndLeadsToReturn ==
    (daemon.serve # "running" /\ ~Panicked) ~>
        (daemon.start = "returned" \/ Panicked)

\* C30: for a target_conf in the range of the schema (or the default 6 when
\* it is omitted) for which the node's EstimateFee succeeds, the tool issues
\* the RPC for exactly that target and returns its estimate; and it returns
\* "Failed to get fee estimates" only when the node's EstimateFee fails for
\* the requested target.
C30_EstimatesRequestedTarget ==
    (last.tool = "lnc_estimate_fee" /\ last.client # Nil) =>
        LET want == IF last.targetConf = 0 THEN 6 ELSE last.targetConf
        IN  /\ (want \in SchemaTargets /\ want \in last.okTargets) =>
                   /\ last.targets = <<want>>
                   /\ last.estimates = {want}
                   /\ last.result = "ok"
            /\ last.result = "Failed to get fee estimates" =>
                   want \notin last.okTargets
====
